---- MODULE Spec2Model ----
(***************************************************************************)
(* Model of crates/wasm-unityfs/src/lib.rs: the projection of a parsed     *)
(* Data tree into host values (convert_data / convert_shallow), the        *)
(* Texture2D entity with its three image states, and Texture2D::try_resolve*)
(* with the ETC block assembly of Texture2D::read_etc.                     *)
(*                                                                         *)
(* Conventions.  Text (paths, names) is a sequence of one-character        *)
(* strings so that starts_with, slicing and split are computed.  A u32     *)
(* that may be large (StreamingInfo offset/size) is a pair of 16-bit limbs *)
(* [hi, lo].  A call ends "ok" (Ok), "err" (Err(JsValue)) or "panic" (a    *)
(* Rust panic: the wasm instance traps).                                   *)
(***************************************************************************)
EXTENDS Integers, Sequences, FiniteSets, TLC

VARIABLES
    pc,       \* lifecycle: "init" | "live" | "aborted"
    input,    \* lifecycle: the Data handed to convert_data
    tex,      \* lifecycle: the Texture2D entity, or NoTex
    last,     \* lifecycle: the last call and its outcome
    nLoaded,  \* lifecycle: number of Streaming -> Loaded assignments so far
    etcIn,    \* read_etc run: its arguments
    etcOut,   \* read_etc run: its result
    obj,      \* projection run: the Data a UnityObject holds
    out       \* projection run: the result of the last data() call

vars == <<pc, input, tex, last, nLoaded, etcIn, etcOut, obj, out>>

(***************************************************************************)
(* Bounds of the model.                                                    *)
(***************************************************************************)
MaxW == 9
MaxH == 6
MaxExtraBlocks == 1
MaxLen == 2

NotRun == [res |-> "none"]

(***************************************************************************)
(* Small helpers.                                                          *)
(***************************************************************************)
Min(a, b) == IF a <= b THEN a ELSE b

CeilDiv(a, b) == (a + b - 1) \div b

\* u32 as two 16-bit limbs.
Limb == 65536

U32(hi, lo) == [hi |-> hi, lo |-> lo]

\* `v as usize` compared with a slice length (lengths in the model are < 2^16).
U32Gt(u, len) == u.hi > 0 \/ u.lo > len

(***************************************************************************)
(* etcdec::DecodeFormat / dxt::DXTVariant wrapped in DecodeFormat.         *)
(***************************************************************************)
Etc(v) == [fam |-> "Etc", v |-> v]

Dxt(v) == [fam |-> "Dxt", v |-> v]

EtcFormats == {"EtcRgb4", "Etc2Rgb", "Etc2Rgba1", "Etc2Rgba8"}

\* Bytes one decode_single_block call takes from the stream.
BlockBytes(format) == IF format = "Etc2Rgba8" THEN 16 ELSE 8

(***************************************************************************)
(* Texture2D::read_etc.  The raster is kept per pixel (4 bytes): a pixel is*)
(* <<block, k, c>>, written from local row k, local column c of the        *)
(* block-th block read from the stream, or Blank (the vec![0u8; ..] fill). *)
(* `n` is the number of bytes the stream holds.                            *)
(***************************************************************************)
Blank == <<-1, -1, -1>>

\* The chunk of buf[4*x..].chunks_mut(scanline) with index j, in pixels:
\* its first pixel and its length.  P is the raster's pixel count.
ChunkStart(x, j, width) == x + j * width

ChunkLen(x, j, width, P) == Min(width, P - (x + j * width))

\* Number of chunks of buf[4*x..] (x <= P).
NumChunks(x, width, P) == CeilDiv(P - x, width)

\* One pass of the inner `for (block_raw, target) in block.iter().zip(..)`
\* for the i-th block of the stream, placed at pixel column x, block row y/4.
\* Result: the new raster, or "panic" when target[..16] is out of range.
WriteBlock(buf, i, x, y, width, height) ==
    LET P == width * height
        NC == NumChunks(x, width, P)
        \* .rev().skip(y).take(4) zipped with the block's 4 rows
        rows == {k \in 0..3 : NC - 1 - y - k >= 0}
        chunk(k) == NC - 1 - y - k
    IN  IF \E k \in rows : ChunkLen(x, chunk(k), width, P) < 4
        THEN [res |-> "panic"]
        ELSE [res |-> "ok",
              buf |-> [p \in 0..(P - 1) |->
                         IF \E k \in rows, c \in 0..3 :
                                p = ChunkStart(x, chunk(k), width) + c
                         THEN LET k == CHOOSE kk \in rows : \E c \in 0..3 :
                                         p = ChunkStart(x, chunk(kk), width) + c
                              IN  <<i, k, p - ChunkStart(x, chunk(k), width)>>
                         ELSE buf[p]]]

\* The two nested loops from block i on; pos is the stream position in bytes.
\* `blocks` counts the decode_single_block calls that returned a block.
RECURSIVE ReadEtcFrom(_, _, _, _, _, _, _)
RECURSIVE AfterBlock(_, _, _, _, _, _, _)
ReadEtcFrom(i, pos, buf, width, height, format, n) ==
    LET block_width == (width + 3) \div 4
        block_height == (height + 3) \div 4
    IN  IF i >= block_width * block_height
        THEN [res |-> "ok", buf |-> buf, blocks |-> i, pos |-> pos]
        ELSE IF pos + BlockBytes(format) > n
        THEN [res |-> "err", msg |-> <<"read_etc", "read error">>, blocks |-> i, pos |-> pos]
        ELSE LET block_y == i \div block_width
                 block_x == i % block_width
             IN  AfterBlock(WriteBlock(buf, i, 4 * block_x, 4 * block_y, width, height),
                            i + 1, pos + BlockBytes(format), width, height, format, n)

\* The rest of the loops once block i - 1 has been copied (w).
AfterBlock(w, i, pos, width, height, format, n) ==
    IF w.res = "panic"
    THEN [res |-> "panic", blocks |-> i, pos |-> pos]
    ELSE ReadEtcFrom(i, pos, w.buf, width, height, format, n)

read_etc(width, height, format, n) ==
    ReadEtcFrom(0, 0, [p \in 0..(width * height - 1) |-> Blank],
                width, height, format, n)

(***************************************************************************)
(* Text: sequences of one-character strings.                               *)
(***************************************************************************)
ArchivePrefix == <<"a", "r", "c", "h", "i", "v", "e", ":", "/">>

\* A byte that is not valid UTF-8, and what from_utf8_lossy puts for it.
BadByte == "\\xFF"

Replacement == "U+FFFD"

from_utf8_lossy(b) == [i \in 1..Len(b) |-> IF b[i] = BadByte THEN Replacement ELSE b[i]]

starts_with(s, p) == Len(s) >= Len(p) /\ SubSeq(s, 1, Len(p)) = p

\* s[n..]
SkipChars(s, n) == SubSeq(s, n + 1, Len(s))

\* str::split(sep) collected: always at least one segment.
RECURSIVE Split(_, _)
Split(s, sep) ==
    IF \A i \in 1..Len(s) : s[i] # sep
    THEN <<s>>
    ELSE LET i == CHOOSE j \in 1..Len(s) :
                    s[j] = sep /\ \A m \in 1..(j - 1) : s[m] # sep
         IN  <<SubSeq(s, 1, i - 1)>> \o Split(SubSeq(s, i + 1, Len(s)), sep)

(***************************************************************************)
(* unityfs::Data: the variants this crate matches on.                      *)
(***************************************************************************)
DBool(b) == [tag |-> "Bool", bool |-> b]

DNum(tag, n) == [tag |-> tag, n |-> n]

DSInt32(n) == DNum("SInt32", n)

DUInt32(u) == [tag |-> "UInt32", u |-> u]

DUInt8Array(len) == [tag |-> "UInt8Array", len |-> len]

DString(b) == [tag |-> "String", b |-> b]

DPair(fst, snd) == [tag |-> "Pair", fst |-> fst, snd |-> snd]

DArray(items) == [tag |-> "GenericArray", items |-> items]

DStruct(type_name, fields) ==
    [tag |-> "GenericStruct", type_name |-> type_name, fields |-> fields]

DPrimitive(type_name, len) ==
    [tag |-> "GenericPrimitive", type_name |-> type_name, len |-> len]

\* fields.get(k)
Get(fields, k) ==
    IF k \in DOMAIN fields THEN [some |-> TRUE, v |-> fields[k]]
    ELSE [some |-> FALSE]

Ok(v) == [res |-> "ok", v |-> v]

Err(msg) == [res |-> "err", msg |-> msg]

\* An error message is <<subject, text>>: Error::new("m_Width not found") is
\* <<"m_Width", "not found">>.
Panic == [res |-> "panic", msg |-> <<"panic", "panic">>]

(***************************************************************************)
(* StreamingInfo::from_data                                                *)
(***************************************************************************)
StreamingInfo_from_data(data) ==
    IF ~(data.tag = "GenericStruct" /\ data.type_name = "StreamingInfo")
    THEN Err(<<"StreamingInfo", "type mismatch">>)
    ELSE LET fields == data.fields
             path == Get(fields, "path")
             offset == Get(fields, "offset")
             size == Get(fields, "size")
         IN  IF ~(path.some /\ path.v.tag = "String")
             THEN Err(<<"StreamingInfo", "type mismatch">>)
             ELSE IF ~(offset.some /\ offset.v.tag = "UInt32")
             THEN Err(<<"StreamingInfo", "type mismatch">>)
             ELSE IF ~(size.some /\ size.v.tag = "UInt32")
             THEN Err(<<"StreamingInfo", "type mismatch">>)
             ELSE Ok([path |-> from_utf8_lossy(path.v.b),
                      offset |-> offset.v.u, size |-> size.v.u])

(***************************************************************************)
(* ImageData and the Texture2D constructors.                               *)
(***************************************************************************)
Loaded(png) == [st |-> "Loaded", png |-> png]

Streaming(format, info) == [st |-> "Streaming", format |-> format, info |-> info]

Unknown == [st |-> "Unknown"]

Texture(name, width, height, image_data) ==
    [name |-> name, width |-> width, height |-> height, image_data |-> image_data]

(***************************************************************************)
(* Texture2D::read_dxt, Texture2D::read.  `src` names the bytes the Cursor *)
(* is over: [from, start, len].  The DXT decoder and the PNG encoder are   *)
(* external: whether each accepts is the oracle o = [dxt, png].            *)
(***************************************************************************)
Oracles == [dxt : BOOLEAN, png : BOOLEAN]

read_dxt(width, height, variant, src, o) ==
    IF o.dxt
    THEN Ok([fam |-> "Dxt", variant |-> variant, flipv |-> TRUE])
    ELSE Err(<<"read_dxt", "failed to decode">>)

\* read_etc's Result as read sees it (`?` on Err, the panic passing through).
EtcRaw(r) ==
    CASE r.res = "ok" -> Ok([fam |-> "Etc", px |-> r.buf])
      [] r.res = "err" -> Err(r.msg)
      [] r.res = "panic" -> Panic

\* Lines 193-205: the PNG encoding of the decoded raster.
EncodePng(raw, width, height, src, o) ==
    IF raw.res # "ok" THEN raw
    ELSE IF ~o.png THEN Err(<<"png", "error while encoding">>)
    ELSE Ok([width |-> width, height |-> height, raw |-> raw.v, src |-> src])

Texture2D_read(width, height, format, src, o) ==
    EncodePng(IF format.fam = "Etc"
              THEN EtcRaw(read_etc(width, height, format.v, src.len))
              ELSE read_dxt(width, height, format.v, src, o),
              width, height, src, o)

\* Ok(Self { .., image_data: ImageData::Loaded(image_data) }) after `?`.
LoadedTexture(image_data, name, width, height) ==
    IF image_data.res # "ok" THEN image_data
    ELSE Ok(Texture(name, width, height, Loaded(image_data.v)))

Texture2D_load(name, width, height, format, src, o) ==
    LoadedTexture(Texture2D_read(width, height, format, src, o), name, width, height)

Texture2D_defer(name, width, height, format, streaming_info) ==
    Texture(name, width, height, Streaming(format, streaming_info))

Texture2D_unknown(name, width, height) == Texture(name, width, height, Unknown)

(***************************************************************************)
(* The Texture2D branch of convert_data.                                   *)
(***************************************************************************)
\* `(*width) as u32` on the values the model draws (0 <= v < 2^31).
AsU32(v) == v

\* FormatOf with the arm for code 45 left out.
FormatOfWithout45(code) ==
    CASE code = 34 -> [some |-> TRUE, v |-> Etc("EtcRgb4")]
      [] code = 46 -> [some |-> TRUE, v |-> Etc("Etc2Rgba1")]
      [] code = 47 -> [some |-> TRUE, v |-> Etc("Etc2Rgba8")]
      [] code = 10 -> [some |-> TRUE, v |-> Dxt("DXT1")]
      [] code = 12 -> [some |-> TRUE, v |-> Dxt("DXT5")]
      [] OTHER -> [some |-> FALSE]

\* The match on m_TextureFormat's code.
FormatOf(code) ==
    CASE code = 34 -> [some |-> TRUE, v |-> Etc("EtcRgb4")]
      [] code = 45 -> [some |-> TRUE, v |-> Etc("Etc2Rgb")]
      [] code = 46 -> [some |-> TRUE, v |-> Etc("Etc2Rgba1")]
      [] code = 47 -> [some |-> TRUE, v |-> Etc("Etc2Rgba8")]
      [] code = 10 -> [some |-> TRUE, v |-> Dxt("DXT1")]
      [] code = 12 -> [some |-> TRUE, v |-> Dxt("DXT5")]
      [] OTHER -> [some |-> FALSE]

\* A required field of the given variant: the value, or the error naming it.
Field(fields, k, tag) ==
    LET f == Get(fields, k)
    IN  IF ~f.some THEN Err(<<k, "not found">>)
        ELSE IF f.v.tag # tag THEN Err(<<k, "type mismatch">>)
        ELSE Ok(f.v)

\* StreamDataOf with a missing or mismatched descriptor defaulted.
StreamDataOfDefaulting(sd) ==
    IF ~sd.some THEN Ok([path |-> <<>>, offset |-> U32(0, 0), size |-> U32(0, 0)])
    ELSE IF StreamingInfo_from_data(sd.v).res # "ok"
    THEN Ok([path |-> <<>>, offset |-> U32(0, 0), size |-> U32(0, 0)])
    ELSE StreamingInfo_from_data(sd.v)

\* Lines 380-383: fields.get("m_StreamData").ok_or_else(..).and_then(from_data)
StreamDataOf(sd) ==
    IF ~sd.some THEN Err(<<"m_StreamData", "not found">>)
    ELSE StreamingInfo_from_data(sd.v)

\* Lines 383-388: `?` on the descriptor, then load or defer.
LoadOrDefer(streaming_info, name, width, height, img, format, o) ==
    IF streaming_info.res # "ok" THEN streaming_info
    ELSE IF streaming_info.v.path = <<>>
    THEN Texture2D_load(name, width, height, format,
                        [from |-> <<"image data">>, start |-> 0, len |-> img], o)
    ELSE Ok(Texture2D_defer(name, width, height, format, streaming_info.v))

\* Lines 379-391: the entity for a decided format.
TextureFor(fields, name, width, height, img, format, o) ==
    IF format.some
    THEN LoadOrDefer(StreamDataOf(Get(fields, "m_StreamData")),
                     name, width, height, img, format.v, o)
    ELSE Ok(Texture2D_unknown(name, width, height))

convert_texture(fields, o) ==
    LET name == Field(fields, "m_Name", "String")
        width == Field(fields, "m_Width", "SInt32")
        height == Field(fields, "m_Height", "SInt32")
        image_data == Field(fields, "image data", "UInt8Array")
        code == Field(fields, "m_TextureFormat", "SInt32")
    IN  IF name.res # "ok" THEN name
        ELSE IF width.res # "ok" THEN width
        ELSE IF height.res # "ok" THEN height
        ELSE IF image_data.res # "ok" THEN image_data
        ELSE IF code.res # "ok" THEN code
        ELSE TextureFor(fields, from_utf8_lossy(name.v.b), AsU32(width.v.n),
                        AsU32(height.v.n), image_data.v.len, FormatOf(code.v.n), o)

(***************************************************************************)
(* The accessors of Texture2D.                                             *)
(***************************************************************************)
None == [some |-> FALSE]

Some(v) == [some |-> TRUE, v |-> v]

\* image_png_len matching every state that is not Unknown.
image_png_len_unless_unknown(t) ==
    IF t.image_data.st # "Unknown" THEN Some(t.image_data) ELSE None

\* A null pointer, or the address of the payload.
image_png_ptr(t) ==
    IF t.image_data.st = "Loaded" THEN [null |-> FALSE, of |-> t.image_data.png]
    ELSE [null |-> TRUE]

image_png_len(t) ==
    IF t.image_data.st = "Loaded" THEN Some(t.image_data.png) ELSE None

asset_dependency(t) ==
    IF t.image_data.st = "Streaming" THEN Some(t.image_data.info.path) ELSE None

(***************************************************************************)
(* UnityFs handles.  A handle holds the input bytes; what parse and        *)
(* read_unityfs make of them is the container's name and named resources   *)
(* (resource name -> length in bytes), or a parse error.                   *)
(***************************************************************************)
Unparsable == [parses |-> FALSE, name |-> <<>>, resources |-> <<>>]

Container(name, resources) ==
    [parses |-> TRUE, name |-> name, resources |-> resources]

\* fs.resource(name)
Resource(fs, name) ==
    IF name \in DOMAIN fs.resources THEN Some(fs.resources[name]) ELSE None

(***************************************************************************)
(* Texture2D::try_resolve                                                  *)
(***************************************************************************)
\* Lines 290-297: the bundle and resource names a path gives, if any.
PathTarget(path) ==
    IF ~starts_with(path, ArchivePrefix) THEN None
    ELSE LET path_segments == Split(SkipChars(path, 9), "/")
         IN  IF Len(path_segments) >= 2
             THEN Some([bundle_name |-> path_segments[1],
                        resource_name |-> path_segments[2]])
             ELSE None

\* SliceOf clamping the range to the resource instead of panicking.
SliceOfClamped(len, offset, size) ==
    LET start == IF U32Gt(offset, len) THEN len ELSE offset.lo
    IN  Ok([start |-> start,
            len |-> IF U32Gt(size, len - start) THEN len - start ELSE size.lo])

\* Line 306: &resource[offset as usize..][..size as usize] on a resource of
\* len bytes: the slice's [start, len], or a panic.
SliceOf(len, offset, size) ==
    IF U32Gt(offset, len) THEN Panic
    ELSE IF U32Gt(size, len - offset.lo) THEN Panic
    ELSE Ok([start |-> offset.lo, len |-> size.lo])

\* The outcome of a call: its result, the entity after it, and the resource
\* name handed to fs.resource (None when the call did not get that far).
Outcome(r, t, lookup) == [res |-> r.res, msg |-> r.msg, tex |-> t, lookup |-> lookup]

Done == [res |-> "ok", msg |-> <<"", "">>]

\* StoreLoaded dropping the pending descriptor before read's result is known.
StoreLoadedEagerly(image_data, t, lookup) ==
    IF image_data.res # "ok"
    THEN Outcome(image_data, [t EXCEPT !.image_data = Unknown], lookup)
    ELSE Outcome(Done, [t EXCEPT !.image_data = Loaded(image_data.v)], lookup)

\* Lines 307-310: `?` on read, then self.image_data = Loaded(..); Ok(()).
StoreLoaded(image_data, t, lookup) ==
    IF image_data.res # "ok" THEN Outcome(image_data, t, lookup)
    ELSE Outcome(Done, [t EXCEPT !.image_data = Loaded(image_data.v)], lookup)

\* Lines 306-308: the slice (a panic when out of range) and its decoding.
ReadSlice(buf, t, resource_name, o) ==
    IF buf.res # "ok" THEN Outcome(buf, t, Some(resource_name))
    ELSE StoreLoaded(Texture2D_read(t.width, t.height, t.image_data.format,
                                    [from |-> resource_name, start |-> buf.v.start,
                                     len |-> buf.v.len], o),
                     t, Some(resource_name))

\* Lines 301-306: the resource, if the container has it.
ReadResource(resource, t, resource_name, o) ==
    IF ~resource.some THEN Outcome(Done, t, Some(resource_name))
    ELSE ReadSlice(SliceOf(resource.v, t.image_data.info.offset, t.image_data.info.size),
                   t, resource_name, o)

\* ResolveTarget without the comparison of the bundle name.
ResolveTargetAnyBundle(target, t, fs, o) ==
    IF ~target.some THEN Outcome(Done, t, None)
    ELSE ReadResource(Resource(fs, target.v.resource_name), t,
                      target.v.resource_name, o)

\* Lines 294-301: the path's two names against the container.
ResolveTarget(target, t, fs, o) ==
    IF ~target.some THEN Outcome(Done, t, None)
    ELSE IF fs.name # target.v.bundle_name THEN Outcome(Done, t, None)
    ELSE ReadResource(Resource(fs, target.v.resource_name), t,
                      target.v.resource_name, o)

\* ResolveIn reporting an entity with nothing pending as an error.
ResolveInStrict(t, fs, o) ==
    IF t.image_data.st # "Streaming"
    THEN Outcome(Err(<<"tryResolve", "nothing to resolve">>), t, None)
    ELSE ResolveTarget(PathTarget(t.image_data.info.path), t, fs, o)

\* Lines 286-311, with the container parsed.
ResolveIn(t, fs, o) ==
    IF t.image_data.st # "Streaming" THEN Outcome(Done, t, None)
    ELSE ResolveTarget(PathTarget(t.image_data.info.path), t, fs, o)

try_resolve(t, fs, o) ==
    IF ~fs.parses THEN Outcome(Err(<<"parse", "parse failed">>), t, None)
    ELSE ResolveIn(t, fs, o)

(***************************************************************************)
(* Host values (JsValue) and the two projectors.                           *)
(***************************************************************************)
JsBool(b) == [kind |-> "boolean", bool |-> b]

JsNumber(n) == [kind |-> "number", n |-> n]

JsNumber32(u) == [kind |-> "number", u |-> u]

JsString(s) == [kind |-> "string", s |-> s]

\* Uint8Array::from over a string's bytes / over a byte array of len bytes.
JsBytesOf(b) == [kind |-> "Uint8Array", b |-> b]

JsBytes(len) == [kind |-> "Uint8Array", len |-> len]

JsArray(items) == [kind |-> "Array", items |-> items]

JsObject(entries) == [kind |-> "Object", entries |-> entries]

\* UnityObject::from_data(v).into(): a handle owning a clone of v.
JsHandle(data) == [kind |-> "UnityObject", data |-> data]

JsTexture(t) == [kind |-> "Texture2D", tex |-> t]

NumTags == {"UInt8", "UInt16", "UInt64", "SInt8", "SInt16", "SInt32", "SInt64",
            "Float", "Double"}

\* `(*v).into()` / `*v as f64`: exact on the values the model draws (< 2^31).
ToF64(n) == n

\* std::str::from_utf8(b).is_ok()
ValidUtf8(b) == \A i \in 1..Len(b) : b[i] # BadByte

StringValue(b) == IF ValidUtf8(b) THEN JsString(b) ELSE JsBytesOf(b)

\* convert_shallow expanding a nested array in place.
convert_shallow_expanding(data) ==
    CASE data.tag = "Bool" -> JsBool(data.bool)
      [] data.tag \in NumTags -> JsNumber(ToF64(data.n))
      [] data.tag = "UInt32" -> JsNumber32(data.u)
      [] data.tag = "String" -> StringValue(data.b)
      [] data.tag = "GenericArray" ->
            JsArray([i \in 1..Len(data.items) |-> JsHandle(data.items[i])])
      [] OTHER -> JsHandle(data)

convert_shallow(data) ==
    CASE data.tag = "Bool" -> JsBool(data.bool)
      [] data.tag \in NumTags -> JsNumber(ToF64(data.n))
      [] data.tag = "UInt32" -> JsNumber32(data.u)
      [] data.tag = "String" -> StringValue(data.b)
      [] OTHER -> JsHandle(data)

\* `Texture2D::load(..)?.into()` and its siblings: the entity as a JsValue.
TextureValue(t) == IF t.res = "ok" THEN Ok(JsTexture(t.v)) ELSE t

convert_data(data, o) ==
    CASE data.tag = "GenericPrimitive" -> Ok(JsBytes(data.len))
      [] data.tag = "GenericStruct" ->
            IF data.type_name = "Texture2D"
            THEN TextureValue(convert_texture(data.fields, o))
            ELSE Ok(JsObject([k \in DOMAIN data.fields |->
                                 convert_shallow(data.fields[k])]))
      [] data.tag = "GenericArray" ->
            Ok(JsArray([i \in 1..Len(data.items) |-> convert_shallow(data.items[i])]))
      [] data.tag = "Bool" -> Ok(JsBool(data.bool))
      [] data.tag \in NumTags -> Ok(JsNumber(ToF64(data.n)))
      [] data.tag = "UInt32" -> Ok(JsNumber32(data.u))
      [] data.tag = "Pair" -> Ok(JsArray(<<JsHandle(data.fst), JsHandle(data.snd)>>))
      [] data.tag = "UInt8Array" -> Ok(JsBytes(data.len))
      [] data.tag = "String" -> Ok(StringValue(data.b))

(***************************************************************************)
(* The Texture2D structs, containers and oracles the lifecycle draws from. *)
(***************************************************************************)
StreamData(path, offset, size) ==
    DStruct("StreamingInfo",
            ("path" :> DString(path)) @@ ("offset" :> DUInt32(offset))
                @@ ("size" :> DUInt32(size)))

TexFields(name, w, h, img, code, sd) ==
    ("m_Name" :> DString(name)) @@ ("m_Width" :> DSInt32(w))
        @@ ("m_Height" :> DSInt32(h)) @@ ("image data" :> DUInt8Array(img))
        @@ ("m_TextureFormat" :> DSInt32(code)) @@ ("m_StreamData" :> sd)

Without(fields, k) == [x \in (DOMAIN fields) \ {k} |-> fields[x]]

Required == {"m_Name", "m_Width", "m_Height", "image data", "m_TextureFormat",
             "m_StreamData"}

Recognized == {10, 12, 34, 45, 46, 47}

Codes == Recognized \cup {99}

NameA == <<"a">>

NameB == <<"b">>

ResX == <<"x">>

ResXY == <<"x", "/", "y">>

Paths ==
    { ArchivePrefix \o <<"a", "/", "x">>,
      ArchivePrefix \o <<"b", "/", "x">>,
      ArchivePrefix \o <<"a", "/", "x", "/", "y">>,
      ArchivePrefix \o <<"a", "/", "z">>,
      ArchivePrefix \o <<"a">>,
      <<"x", "/", "y">>,
      <<BadByte>> }

Big == Limb - 1

\* <<offset, size>> pairs; U32(Big, Big) is 2^32 - 1.
Ranges ==
    { <<U32(0, 0), U32(0, 0)>>, <<U32(0, 0), U32(0, 16)>>, <<U32(0, 8), U32(0, 16)>>,
      <<U32(0, 0), U32(0, 32)>>, <<U32(0, 100), U32(0, 50)>>,
      <<U32(0, 100), U32(0, 20)>>,
      <<U32(Big, Limb - 8), U32(0, 16)>>, <<U32(0, 8), U32(Big, Big)>>,
      <<U32(0, 16), U32(Big, Limb - 8)>> }

Dims == {<<4, 4>>, <<8, 4>>, <<5, 4>>, <<4, 6>>}

ImageLens == {0, 8, 16, 32}

TexName == <<"t", BadByte>>

\* Inline textures: empty path, pixel bytes in `image data`.
InlineInputs ==
    {DStruct("Texture2D",
             TexFields(TexName, d[1], d[2], img, code, StreamData(<<>>, U32(0, 0), U32(0, 0)))) :
        d \in Dims, img \in ImageLens, code \in Codes}

\* Streamed textures: pixel bytes in a named resource.
StreamedInputs ==
    {DStruct("Texture2D",
             TexFields(TexName, d[1], d[2], 0, code, StreamData(path, r[1], r[2]))) :
        d \in Dims, code \in Codes, path \in Paths, r \in Ranges}

BadStreamData ==
    { DBool(TRUE),
      DStruct("Other", StreamData(<<>>, U32(0, 0), U32(0, 0)).fields),
      DStruct("StreamingInfo", Without(StreamData(<<>>, U32(0, 0), U32(0, 0)).fields, "path")),
      DStruct("StreamingInfo",
              [StreamData(<<>>, U32(0, 0), U32(0, 0)).fields EXCEPT !["offset"] = DSInt32(0)]),
      DStruct("StreamingInfo", Without(StreamData(<<>>, U32(0, 0), U32(0, 0)).fields, "size")) }

\* One required field missing, or of another variant.
MalformedOf(fields) ==
    {Without(fields, k) : k \in Required}
        \cup {[fields EXCEPT ![k] = DBool(TRUE)] : k \in Required}
        \cup {[fields EXCEPT !["m_StreamData"] = sd] : sd \in BadStreamData}

MalformedInputs ==
    {DStruct("Texture2D", f) :
        f \in UNION {MalformedOf(TexFields(TexName, 4, 4, 16, code, StreamData(path, U32(0, 0), U32(0, 16)))) :
                        code \in {34, 10, 99},
                        path \in {<<>>, ArchivePrefix \o <<"a", "/", "x">>}}}

TexInputs == InlineInputs \cup StreamedInputs \cup MalformedInputs

Handles ==
    { Unparsable,
      Container(NameA, (ResX :> 120) @@ (ResXY :> 32)),
      Container(NameA, (ResX :> 16)),
      Container(NameB, (ResX :> 120)),
      Container(NameA, <<>>) }

(***************************************************************************)
(* The lifecycle of one Texture2D: data() on the UnityObject holding the   *)
(* struct creates it, tryResolve is then called any number of times.       *)
(***************************************************************************)
NoTex == Texture(<<>>, 0, 0, [st |-> "None"])

Call(op, r, fs, pre, lookup) ==
    [op |-> op, res |-> r.res, msg |-> r.msg, fs |-> fs, pre |-> pre, lookup |-> lookup]

NoCall == Call("none", Done, Unparsable, NoTex, None)

LifeIdle == etcIn = NotRun /\ etcOut = NotRun /\ obj = NotRun /\ out = NotRun

Init ==
    /\ pc = "init"
    /\ input = NotRun
    /\ tex = NoTex
    /\ last = NoCall
    /\ nLoaded = 0
    /\ LifeIdle

\* What the caller holds after data() returned r.
Converted(r) ==
    /\ tex' = IF r.res = "ok" THEN r.v.tex ELSE NoTex
    /\ last' = Call("convert", IF r.res = "ok" THEN Done ELSE r, Unparsable, NoTex, None)
    /\ pc' = CASE r.res = "ok" -> "live"
               [] r.res = "err" -> "failed"
               [] r.res = "panic" -> "aborted"

\* UnityObject::data() on a Texture2D-tagged struct.
Convert ==
    /\ pc = "init"
    /\ \E d \in TexInputs, o \in Oracles :
          /\ input' = d
          /\ Converted(convert_data(d, o))
    /\ UNCHANGED <<nLoaded, etcIn, etcOut, obj, out>>

\* What the caller holds after tryResolve(fs) returned r.
Resolved(r, fs) ==
    /\ tex' = r.tex
    /\ last' = Call("resolve", r, fs, tex, r.lookup)
    /\ nLoaded' = IF r.tex.image_data # tex.image_data THEN nLoaded + 1 ELSE nLoaded
    /\ pc' = IF r.res = "panic" THEN "aborted" ELSE "live"

\* Texture2D::tryResolve(fs)
TryResolve ==
    /\ pc = "live"
    /\ \E fs \in Handles, o \in Oracles : Resolved(try_resolve(tex, fs, o), fs)
    /\ UNCHANGED <<input, etcIn, etcOut, obj, out>>

Next == Convert \/ TryResolve

Spec == Init /\ [][Next]_vars

(***************************************************************************)
(* Vocabulary of the properties of the lifecycle.                          *)
(***************************************************************************)
AfterConvert == last.op = "convert"

AfterResolve == last.op = "resolve"

\* The struct handed to data() has all six fields in their required shape.
WellFormedInput == input \in InlineInputs \cup StreamedInputs

InCode == input.fields["m_TextureFormat"].n

InPath == input.fields["m_StreamData"].fields["path"].b

InOffset == input.fields["m_StreamData"].fields["offset"].u

InSize == input.fields["m_StreamData"].fields["size"].u

\* The table of format codes.
FormatTable ==
    (10 :> Dxt("DXT1")) @@ (12 :> Dxt("DXT5")) @@ (34 :> Etc("EtcRgb4"))
        @@ (45 :> Etc("Etc2Rgb")) @@ (46 :> Etc("Etc2Rgba1")) @@ (47 :> Etc("Etc2Rgba8"))

St(t) == t.image_data.st

\* The text of s before / after its first ch (s contains ch).
FirstIndex(s, ch) == CHOOSE i \in 1..Len(s) : s[i] = ch /\ \A j \in 1..(i - 1) : s[j] # ch

Contains(s, ch) == \E i \in 1..Len(s) : s[i] = ch

TextBefore(s, ch) == IF Contains(s, ch) THEN SubSeq(s, 1, FirstIndex(s, ch) - 1) ELSE s

TextAfter(s, ch) == SubSeq(s, FirstIndex(s, ch) + 1, Len(s))

\* offset + size > len, exactly (len < 2^16).
Exceeds(offset, size, len) == offset.hi > 0 \/ size.hi > 0 \/ offset.lo + size.lo > len

IsDecodeError(msg) == msg[1] \in {"read_etc", "read_dxt", "png"}

(* C1 as stated: after data() on a well-formed Texture2D struct, a recognized
   code with an empty path gives a Loaded entity decoded from `image data`, a
   recognized code with a non-empty path gives Streaming with that format and
   descriptor, and any other code gives Unknown. *)
C1_StateFromCodeAndPath ==
    (AfterConvert /\ WellFormedInput) =>
        /\ (InCode \in Recognized /\ InPath = <<>>) =>
              /\ St(tex) = "Loaded"
              /\ tex.image_data.png.src.from = <<"image data">>
        /\ (InCode \in Recognized /\ InPath # <<>>) =>
              tex.image_data = Streaming(FormatTable[InCode],
                                         [path |-> from_utf8_lossy(InPath),
                                          offset |-> InOffset, size |-> InSize])
        /\ InCode \notin Recognized => St(tex) = "Unknown"

(* C1 amended: as C1, except that with a recognized code and an empty path
   the entity is Loaded (decoded from `image data`) when decoding and encoding
   succeed; otherwise data() fails with a decode or encode error, or aborts,
   and no entity exists. *)
C1_StateFromCodeAndPathOrDecodeFailure ==
    (AfterConvert /\ WellFormedInput) =>
        /\ (InCode \in Recognized /\ InPath = <<>>) =>
              \/ /\ last.res = "ok"
                 /\ St(tex) = "Loaded"
                 /\ tex.image_data.png.src = [from |-> <<"image data">>, start |-> 0,
                                              len |-> input.fields["image data"].len]
              \/ /\ last.res = "err" /\ IsDecodeError(last.msg)
                 /\ tex = NoTex
              \/ /\ last.res = "panic"
                 /\ tex = NoTex
        /\ (InCode \in Recognized /\ InPath # <<>>) =>
              /\ last.res = "ok"
              /\ tex.image_data = Streaming(FormatTable[InCode],
                                            [path |-> from_utf8_lossy(InPath),
                                             offset |-> InOffset, size |-> InSize])
        /\ InCode \notin Recognized => (last.res = "ok" /\ St(tex) = "Unknown")

C1_Witness ==
    /\ AfterConvert /\ WellFormedInput
    /\ InCode = 45 /\ InPath = <<>>
    /\ St(tex) = "Loaded"

(* C2 as stated: tryResolve on an entity that is not Streaming returns Ok and
   leaves the entity as it was, whatever handle it is given. *)
C2_NotDeferredIsNoOpSuccess ==
    (AfterResolve /\ St(last.pre) # "Streaming") =>
        (last.res = "ok" /\ tex = last.pre)

(* C2 amended: tryResolve on an entity that is not Streaming never changes the
   entity; it returns Ok when the handle's bytes parse, and the parse error
   when they do not. *)
C2_NotDeferredIsNoOp ==
    (AfterResolve /\ St(last.pre) # "Streaming") =>
        /\ tex = last.pre
        /\ last.fs.parses => last.res = "ok"
        /\ ~last.fs.parses => (last.res = "err" /\ last.msg = <<"parse", "parse failed">>)

\* A second tryResolve after one that loaded the entity.
C2_Witness ==
    /\ AfterResolve /\ St(last.pre) = "Loaded" /\ nLoaded = 1
    /\ last.fs.parses /\ last.res = "ok"

(* C3: in every step on an existing entity, name, width and height are kept;
   image_data changes only from Streaming to Loaded and only in a call that
   returns Ok; a call that does not return Ok leaves the entity as it was;
   and image_data changes at most once. *)
C3_OnlyDeferredToResolved ==
    /\ [](nLoaded <= 1)
    /\ [][pc = "live" =>
            /\ tex'.name = tex.name /\ tex'.width = tex.width /\ tex'.height = tex.height
            /\ tex'.image_data # tex.image_data =>
                  (St(tex) = "Streaming" /\ St(tex') = "Loaded" /\ last'.res = "ok")
            /\ last'.res # "ok" => tex' = tex
            /\ St(tex) \in {"Loaded", "Unknown"} => tex' = tex]_vars

\* A failed tryResolve on a Streaming entity that reached the decoder.
C3_Witness ==
    /\ AfterResolve /\ St(last.pre) = "Streaming"
    /\ last.res = "err" /\ IsDecodeError(last.msg)
    /\ St(tex) = "Streaming"

(* C4 as stated: tryResolve on a Streaming entity returns Ok and leaves it
   unchanged when the path does not start with archive:/, when the bundle
   name differs from the container's, or when the resource is absent. *)
C4_NoOpConditionsSucceed ==
    (AfterResolve /\ St(last.pre) = "Streaming") =>
        LET path == last.pre.image_data.info.path
            rest == SkipChars(path, Len(ArchivePrefix))
        IN  (\/ ~starts_with(path, ArchivePrefix)
             \/ /\ starts_with(path, ArchivePrefix) /\ last.fs.parses
                /\ TextBefore(rest, "/") # last.fs.name
             \/ /\ starts_with(path, ArchivePrefix) /\ last.fs.parses
                /\ last.lookup.some /\ last.lookup.v \notin DOMAIN last.fs.resources)
            => (last.res = "ok" /\ tex = last.pre)

(* C4 amended: with a handle whose bytes parse, tryResolve on a Streaming
   entity returns Ok and leaves it unchanged when the path does not start
   with archive:/, when the bundle name differs from the container's, or when
   the resource looked up is absent; with a handle whose bytes do not parse
   it returns the parse error and leaves the entity unchanged. *)
C4_NoOpConditionsSucceedWhenParsed ==
    (AfterResolve /\ St(last.pre) = "Streaming") =>
        LET path == last.pre.image_data.info.path
            rest == SkipChars(path, Len(ArchivePrefix))
        IN  /\ (/\ last.fs.parses
                /\ \/ ~starts_with(path, ArchivePrefix)
                   \/ /\ starts_with(path, ArchivePrefix)
                      /\ TextBefore(rest, "/") # last.fs.name
                   \/ /\ starts_with(path, ArchivePrefix)
                      /\ last.lookup.some
                      /\ last.lookup.v \notin DOMAIN last.fs.resources)
               => (last.res = "ok" /\ tex = last.pre)
            /\ ~last.fs.parses =>
                  (last.res = "err" /\ last.msg = <<"parse", "parse failed">>
                   /\ tex = last.pre)

\* archive:/b/x against the container named a.
C4_Witness ==
    /\ AfterResolve /\ St(last.pre) = "Streaming"
    /\ last.pre.image_data.info.path = ArchivePrefix \o <<"b", "/", "x">>
    /\ last.fs.parses /\ last.fs.name = NameA /\ ResX \in DOMAIN last.fs.resources
    /\ last.res = "ok" /\ tex = last.pre

(* C5: when tryResolve on a Streaming entity finds the resource and
   offset + size exceeds the resource's length, the call does not return Ok
   and the entity stays Streaming; and whenever tryResolve loads the entity,
   the bytes decoded are exactly [offset, offset + size) of the resource
   looked up, a range inside it. *)
C5_OutOfRangeIsFatal ==
    (/\ AfterResolve /\ St(last.pre) = "Streaming"
     /\ last.lookup.some /\ last.lookup.v \in DOMAIN last.fs.resources) =>
        LET info == last.pre.image_data.info
            len == last.fs.resources[last.lookup.v]
        IN  /\ Exceeds(info.offset, info.size, len) =>
                  (last.res # "ok" /\ tex = last.pre)
            /\ St(tex) = "Loaded" =>
                  /\ ~Exceeds(info.offset, info.size, len)
                  /\ tex.image_data.png.src =
                        [from |-> last.lookup.v, start |-> info.offset.lo,
                         len |-> info.size.lo]

\* offset = 100, size = 50 against a resource of 120 bytes.
C5_Witness ==
    /\ AfterResolve /\ St(last.pre) = "Streaming"
    /\ last.lookup = Some(ResX) /\ ResX \in DOMAIN last.fs.resources
    /\ last.fs.resources[ResX] = 120
    /\ last.pre.image_data.info.offset = U32(0, 100)
    /\ last.pre.image_data.info.size = U32(0, 50)
    /\ last.res = "panic" /\ St(tex) = "Streaming"

\* The variant each scalar field of a Texture2D struct must have.
RequiredTag ==
    ("m_Name" :> "String") @@ ("m_Width" :> "SInt32") @@ ("m_Height" :> "SInt32")
        @@ ("image data" :> "UInt8Array") @@ ("m_TextureFormat" :> "SInt32")

\* d has the Streaming Descriptor shape.
DescriptorShaped(d) ==
    /\ d.tag = "GenericStruct"
    /\ d.type_name = "StreamingInfo"
    /\ {"path", "offset", "size"} \subseteq DOMAIN d.fields
    /\ d.fields["path"].tag = "String"
    /\ d.fields["offset"].tag = "UInt32"
    /\ d.fields["size"].tag = "UInt32"

FieldMissing(k) == k \notin DOMAIN input.fields

FieldMismatched(k) ==
    /\ k \in DOMAIN input.fields
    /\ IF k = "m_StreamData" THEN ~DescriptorShaped(input.fields[k])
       ELSE input.fields[k].tag # RequiredTag[k]

FieldBad(k) == FieldMissing(k) \/ FieldMismatched(k)

(* C6 as stated: data() on a Texture2D struct in which a required field is
   missing or of the wrong variant fails with an error naming that field, and
   no entity exists. *)
C6_BadFieldIsNamedError ==
    AfterConvert =>
        \A k \in Required :
            FieldBad(k) => (last.res = "err" /\ last.msg[1] = k /\ tex = NoTex)

(* C6 amended: for m_Name, m_Width, m_Height, image data and m_TextureFormat,
   a missing field fails with "<field> not found" and a field of the wrong
   variant with "<field> type mismatch", and no entity exists.  m_StreamData
   is examined only when the format code is recognized: then a missing one
   fails with "m_StreamData not found" and a mis-shaped one with
   "StreamingInfo type mismatch" (naming the type, not the field), and no
   entity exists; with an unrecognized code data() succeeds with an Unknown
   entity whatever m_StreamData is. *)
C6_BadFieldErrors ==
    AfterConvert =>
        /\ \A k \in DOMAIN RequiredTag :
              /\ FieldMissing(k) =>
                    (last.res = "err" /\ last.msg = <<k, "not found">> /\ tex = NoTex)
              /\ FieldMismatched(k) =>
                    (last.res = "err" /\ last.msg = <<k, "type mismatch">> /\ tex = NoTex)
        /\ (FieldBad("m_StreamData") /\ \A k \in DOMAIN RequiredTag : ~FieldBad(k)) =>
              IF InCode \in Recognized
              THEN /\ last.res = "err" /\ tex = NoTex
                   /\ FieldMissing("m_StreamData") =>
                         last.msg = <<"m_StreamData", "not found">>
                   /\ FieldMismatched("m_StreamData") =>
                         last.msg = <<"StreamingInfo", "type mismatch">>
              ELSE last.res = "ok" /\ St(tex) = "Unknown"

\* A Texture2D struct without m_Width.
C6_Witness ==
    /\ AfterConvert /\ FieldMissing("m_Width")
    /\ last.res = "err" /\ last.msg = <<"m_Width", "not found">> /\ tex = NoTex

(* C7: for every entity, imagePngLen and imagePngPtr yield the payload
   exactly when the state is Loaded, assetDependency yields the pending path
   exactly when the state is Streaming, Unknown yields neither, and never
   both are present. *)
C7_AccessorsFollowState ==
    tex # NoTex =>
        /\ image_png_len(tex).some <=> St(tex) = "Loaded"
        /\ ~image_png_ptr(tex).null <=> St(tex) = "Loaded"
        /\ asset_dependency(tex).some <=> St(tex) = "Streaming"
        /\ St(tex) = "Unknown" =>
              (~image_png_len(tex).some /\ image_png_ptr(tex).null
               /\ ~asset_dependency(tex).some)
        /\ ~(image_png_len(tex).some /\ asset_dependency(tex).some)
        /\ St(tex) = "Loaded" => image_png_len(tex).v = tex.image_data.png
        /\ St(tex) = "Streaming" =>
              asset_dependency(tex).v = from_utf8_lossy(InPath)

\* An entity loaded by tryResolve: the payload has replaced the pending path.
C7_Witness ==
    /\ AfterResolve /\ St(last.pre) = "Streaming" /\ St(tex) = "Loaded"
    /\ image_png_len(tex).some /\ ~asset_dependency(tex).some
    /\ asset_dependency(last.pre).some

(* C8 as stated: for a path archive:/<rest> whose bundle name is the
   container's, the resource looked up is all of <rest> after its first `/`. *)
C8_SplitOnFirstSlashOnly ==
    (/\ AfterResolve /\ St(last.pre) = "Streaming" /\ last.fs.parses
     /\ starts_with(last.pre.image_data.info.path, ArchivePrefix)) =>
        LET rest == SkipChars(last.pre.image_data.info.path, Len(ArchivePrefix))
        IN  (Contains(rest, "/") /\ TextBefore(rest, "/") = last.fs.name) =>
                last.lookup = Some(TextAfter(rest, "/"))

(***************************************************************************)
(* A run of read_etc on bounded arguments.                                 *)
(***************************************************************************)
EtcBlocks(width, height) == CeilDiv(width, 4) * CeilDiv(height, 4)

EtcInputs ==
    {[width |-> w, height |-> h, format |-> f, n |-> n] :
        w \in 1..MaxW, h \in 1..MaxH, f \in EtcFormats,
        n \in {0}} \cup
    UNION {{[width |-> w, height |-> h, format |-> f,
             n |-> (EtcBlocks(w, h) + d) * BlockBytes(f) + r] :
               d \in (-1)..MaxExtraBlocks, r \in {0, 3}} :
           w \in 1..MaxW, h \in 1..MaxH, f \in EtcFormats}

EtcIdle ==
    /\ pc = "etc"
    /\ input = NotRun /\ tex = NotRun /\ last = NotRun /\ nLoaded = 0
    /\ obj = NotRun /\ out = NotRun

InitEtc ==
    /\ EtcIdle
    /\ etcIn \in EtcInputs
    /\ etcOut = NotRun

RunReadEtc ==
    /\ pc = "etc"
    /\ etcOut = NotRun
    /\ etcOut' = read_etc(etcIn.width, etcIn.height, etcIn.format, etcIn.n)
    /\ UNCHANGED <<pc, input, tex, last, nLoaded, etcIn, obj, out>>

NextEtc == RunReadEtc

SpecEtc == InitEtc /\ [][NextEtc]_vars

(* C9 as stated: with at least ceil(width/4) x ceil(height/4) blocks in the
   stream, read_etc returns a raster of width x height pixels, has read
   exactly that many blocks, and the pixel at output row r, column col comes
   from local row (height-1-r) mod 4, local column col mod 4 of the block at
   block row (height-1-r) div 4, block column col div 4, blocks being
   numbered in row-major order of reading. *)
C9_ReadEtcPlacement ==
    (/\ etcOut # NotRun
     /\ etcIn.n >= EtcBlocks(etcIn.width, etcIn.height) * BlockBytes(etcIn.format)) =>
        LET w == etcIn.width
            h == etcIn.height
        IN  /\ etcOut.res = "ok"
            /\ etcOut.blocks = EtcBlocks(w, h)
            /\ etcOut.pos = EtcBlocks(w, h) * BlockBytes(etcIn.format)
            /\ DOMAIN etcOut.buf = 0..(w * h - 1)
            /\ \A r \in 0..(h - 1), col \in 0..(w - 1) :
                  etcOut.buf[r * w + col] =
                     <<((h - 1 - r) \div 4) * CeilDiv(w, 4) + (col \div 4),
                       (h - 1 - r) % 4, col % 4>>

\* The same placement, for the widths that are multiples of 4; for the other
\* widths a stream with enough blocks ends in the panic of target[..16].
EtcPlacementForWidthsOfWholeBlocks ==
    (/\ etcOut # NotRun
     /\ etcIn.n >= EtcBlocks(etcIn.width, etcIn.height) * BlockBytes(etcIn.format)) =>
        LET w == etcIn.width
            h == etcIn.height
        IN  IF w % 4 # 0 THEN etcOut.res = "panic"
            ELSE /\ etcOut.res = "ok"
                 /\ etcOut.blocks = EtcBlocks(w, h)
                 /\ DOMAIN etcOut.buf = 0..(w * h - 1)
                 /\ \A r \in 0..(h - 1), col \in 0..(w - 1) :
                       etcOut.buf[r * w + col] =
                          <<((h - 1 - r) \div 4) * CeilDiv(w, 4) + (col \div 4),
                            (h - 1 - r) % 4, col % 4>>

(***************************************************************************)
(* Projection runs: data() on a UnityObject holding a bounded Data tree,   *)
(* then data() on the handles it returned.                                 *)
(***************************************************************************)
Scalars ==
    { DBool(TRUE), DNum("UInt8", 7), DNum("SInt64", 5), DNum("Double", 2),
      DUInt32(U32(0, 3)), DString(<<"h", "i">>), DString(<<BadByte>>) }

Opaque == { DUInt8Array(2), DPrimitive("Blob", 3) }

GoodTexture ==
    DStruct("Texture2D",
            TexFields(TexName, 4, 4, 8, 34, StreamData(<<>>, U32(0, 0), U32(0, 0))))

Composites ==
    { DPair(DBool(TRUE), DUInt8Array(2)),
      DArray(<<DNum("UInt8", 7), DUInt8Array(2)>>),
      DStruct("Other", ("k" :> DString(<<"h">>)) @@ ("n" :> DArray(<<>>))),
      StreamData(ArchivePrefix, U32(0, 8), U32(0, 16)),
      DStruct("Texture2D", Without(GoodTexture.fields, "m_Width")),
      GoodTexture }

Members == Scalars \cup Opaque \cup Composites

Keys == {"p", "q"}

Roots ==
    {DArray(items) : items \in UNION {[1..n -> Members] : n \in 0..MaxLen}}
        \cup {DStruct("Other", f) : f \in UNION {[K -> Members] : K \in SUBSET Keys}}
        \cup Members

ProjIdle ==
    /\ pc = "proj"
    /\ input = NotRun /\ tex = NotRun /\ last = NotRun /\ nLoaded = 0
    /\ etcIn = NotRun /\ etcOut = NotRun

\* UnityObject::from_data: the object owns its Data; depth counts the handles
\* opened to reach it.
InitProj ==
    /\ ProjIdle
    /\ obj \in {[data |-> d, depth |-> 0] : d \in Roots}
    /\ out = NotRun

\* UnityObject::data() on the root object.
Project ==
    /\ pc = "proj"
    /\ out = NotRun
    /\ \E o \in Oracles : out' = convert_data(obj.data, o)
    /\ UNCHANGED <<pc, input, tex, last, nLoaded, etcIn, etcOut, obj>>

\* The handles among the members of a projected Array or Object.
HandlesIn(v) ==
    IF v.kind = "Array"
    THEN {v.items[i] : i \in {j \in 1..Len(v.items) : v.items[j].kind = "UnityObject"}}
    ELSE IF v.kind = "Object"
    THEN {v.entries[k] : k \in {j \in DOMAIN v.entries : v.entries[j].kind = "UnityObject"}}
    ELSE {}

\* UnityObject::data() on a handle returned by the last data() call.
OpenHandle ==
    /\ pc = "proj"
    /\ out # NotRun
    /\ out.res = "ok"
    /\ \E h \in HandlesIn(out.v), o \in Oracles :
          /\ obj' = [data |-> h.data, depth |-> obj.depth + 1]
          /\ out' = convert_data(h.data, o)
    /\ UNCHANGED <<pc, input, tex, last, nLoaded, etcIn, etcOut>>

NextProj == Project \/ OpenHandle

SpecProj == InitProj /\ [][NextProj]_vars

ScalarTags == NumTags \cup {"Bool", "UInt32"}

PlainKinds == {"boolean", "number", "string"}

\* v is what one level of projection makes of member m: a plain value for a
\* scalar or string, else a handle holding m itself.
OneLevel(m, v) ==
    IF m.tag \in ScalarTags THEN v.kind \in {"boolean", "number"}
    ELSE IF m.tag = "String" THEN v.kind \in {"string", "Uint8Array"}
    ELSE v = JsHandle(m)

\* The kind of host value the deep projector makes of a Data with this tag
\* (a Pair's handles may hold scalars).
DeepKind(d) ==
    CASE d.tag \in {"GenericArray", "Pair"} -> "Array"
      [] d.tag \in {"UInt8Array", "GenericPrimitive"} -> "Uint8Array"
      [] d.tag = "GenericStruct" -> IF d.type_name = "Texture2D" THEN "Texture2D"
                                     ELSE "Object"
      [] d.tag = "Bool" -> "boolean"
      [] d.tag \in ScalarTags \ {"Bool"} -> "number"
      [] d.tag = "String" -> IF ValidUtf8(d.b) THEN "string" ELSE "Uint8Array"

(* C10: data() on a generic array or on a struct not tagged Texture2D succeeds
   and expands exactly one level: each scalar or string member is a plain
   value, each other member (a Texture2D-tagged struct included, even a
   malformed one) is a handle holding the member untouched; data() on such a
   handle then yields the member's deep projection: an Array, Object, byte
   buffer or Texture2D, or the error of a malformed Texture2D. *)
C10_OneLevelOnly ==
    out # NotRun =>
        /\ obj.data.tag = "GenericArray" =>
              /\ out.res = "ok" /\ out.v.kind = "Array"
              /\ Len(out.v.items) = Len(obj.data.items)
              /\ \A i \in 1..Len(obj.data.items) :
                    OneLevel(obj.data.items[i], out.v.items[i])
        /\ (obj.data.tag = "GenericStruct" /\ obj.data.type_name # "Texture2D") =>
              /\ out.res = "ok" /\ out.v.kind = "Object"
              /\ DOMAIN out.v.entries = DOMAIN obj.data.fields
              /\ \A k \in DOMAIN obj.data.fields :
                    OneLevel(obj.data.fields[k], out.v.entries[k])
        /\ (obj.depth > 0 /\ out.res = "ok") => out.v.kind = DeepKind(obj.data)
        /\ (obj.depth > 0 /\ out.res # "ok") =>
              /\ obj.data.tag = "GenericStruct" /\ obj.data.type_name = "Texture2D"
              /\ \/ out.res = "err" /\ out.msg = <<"m_Width", "not found">>
                 \/ out.res = "err" /\ IsDecodeError(out.msg)

\* data() on the handle of a nested array, reached through the array above it.
C10_Witness ==
    /\ obj.depth = 1 /\ obj.data = DArray(<<DNum("UInt8", 7), DUInt8Array(2)>>)
    /\ out = Ok(JsArray(<<JsNumber(7), JsHandle(DUInt8Array(2))>>))

====
